---- MODULE Spec2Model ----
(***************************************************************************)
(* State-machine model of the social listening service:                    *)
(*   app/data/processor.py       SocialMediaDataProcessor.process_data     *)
(*   app/services/gemini_service.py  GeminiService.generate_insights       *)
(*   app/main.py                 search_brand and the module-level services *)
(*                                                                         *)
(* Python values are modelled as follows.                                  *)
(*   str    a sequence of code points (so that split() and the ordering of  *)
(*          sorted() are computed); platform and sentiment labels, which    *)
(*          are only compared for equality, are TLA+ strings                *)
(*   int    an integer (Python ints do not overflow)                        *)
(*   float  an IEEE-754 double: Zero, or [neg, m, e] with m the 53          *)
(*          significand bits, most significant first, and value m * 2^e     *)
(*   dict   a sequence of [key, val] entries in insertion order             *)
(***************************************************************************)
EXTENDS Integers, Sequences, FiniteSets, TLC

(***************************************************************************)
(* Bounds of the model.                                                    *)
(***************************************************************************)
MaxLen == 3      \* longest record sequence drawn from the full record set
MaxRun == 7      \* longest single-platform run of records
MaxLikes == 29   \* largest likes count of the first record of a run
MaxPosts == 2    \* largest total_posts handed to update_metrics_sheet
MaxLines == 6    \* most lines of a response text handed to _parse_insights

(***************************************************************************)
(* Sequences helpers.                                                      *)
(***************************************************************************)
Range(s) == {s[i] : i \in 1..Len(s)}

SeqsUpTo(S, n) == UNION {[1..k -> S] : k \in 0..n}

Abs(x) == IF x < 0 THEN -x ELSE x

RECURSIVE SumSeq(_)
SumSeq(s) == IF s = <<>> THEN 0 ELSE Head(s) + SumSeq(Tail(s))

(***************************************************************************)
(* Python str, as code points.                                             *)
(***************************************************************************)
\* str.isspace() for the ASCII range: \t \n \v \f \r, 0x1c..0x1f and space
IsSpace(c) == c \in {9, 10, 11, 12, 13, 28, 29, 30, 31, 32}

RECURSIVE SkipSpaces(_)
SkipSpaces(s) ==
    IF s # <<>> /\ IsSpace(Head(s)) THEN SkipSpaces(Tail(s)) ELSE s

RECURSIVE TakeToken(_)
TakeToken(s) ==
    IF s = <<>> \/ IsSpace(Head(s)) THEN <<>>
    ELSE <<Head(s)>> \o TakeToken(Tail(s))

\* len(s.split()) > 0: the string holds a character that is not whitespace
HasToken(s) == SkipSpaces(s) # <<>>

\* s.split()[0]: the first maximal run of non-whitespace characters
SplitFirst(s) == TakeToken(SkipSpaces(s))

\* a < b for Python str: lexicographic by code point, a prefix comes first
RECURSIVE StrLess(_, _)
StrLess(a, b) ==
    IF b = <<>> THEN FALSE
    ELSE IF a = <<>> THEN TRUE
    ELSE IF Head(a) # Head(b) THEN Head(a) < Head(b)
    ELSE StrLess(Tail(a), Tail(b))

(***************************************************************************)
(* Python float: IEEE-754 binary64, round to nearest, ties to even.        *)
(* Magnitudes stay far from the subnormal and overflow ranges.             *)
(***************************************************************************)
Precision == 53

Zero == [neg |-> FALSE, m |-> <<>>, e |-> 0]

RECURSIVE NatBits(_)
\* the binary digits of n > 0, most significant first; <<>> for 0
NatBits(n) == IF n = 0 THEN <<>> ELSE Append(NatBits(n \div 2), n % 2)

\* the w low binary digits of n, most significant first
FixedBits(n, w) == [j \in 1..w |-> (n \div (2 ^ (w - j))) % 2]

RECURSIVE BitsVal(_)
\* the number whose binary digits are b (at most LimbWidth digits)
BitsVal(b) ==
    IF b = <<>> THEN 0
    ELSE 2 * BitsVal(SubSeq(b, 1, Len(b) - 1)) + b[Len(b)]

Zeros(k) == [j \in 1..k |-> 0]

StripZeros(b) ==
    IF \A i \in 1..Len(b) : b[i] = 0 THEN <<>>
    ELSE LET first == CHOOSE i \in 1..Len(b) :
                          b[i] = 1 /\ \A j \in 1..(i - 1) : b[j] = 0
         IN  SubSeq(b, first, Len(b))

\* digits are handled LimbWidth at a time, so that a limb times a small
\* factor stays a machine integer
LimbWidth == 16

RECURSIVE BitsMulCarry(_, _, _)
\* the digits of (the number with digits b) * k + carry
BitsMulCarry(b, k, carry) ==
    IF b = <<>> THEN NatBits(carry)
    ELSE LET n == Len(b)
             w == IF n < LimbWidth THEN n ELSE LimbWidth
             v == BitsVal(SubSeq(b, n - w + 1, n)) * k + carry
         IN  BitsMulCarry(SubSeq(b, 1, n - w), k, v \div (2 ^ w))
                 \o FixedBits(v % (2 ^ w), w)

\* the digits of (the number with digits b) * k, for 0 <= k < 2^14
BitsMul(b, k) == StripZeros(BitsMulCarry(b, k, 0))

\* b + 1; a carry out of the first digit lengthens the sequence by one
BitsInc(b) ==
    IF \A i \in 1..Len(b) : b[i] = 1 THEN <<1>> \o Zeros(Len(b))
    ELSE LET last == CHOOSE i \in 1..Len(b) :
                         b[i] = 0 /\ \A j \in (i + 1)..Len(b) : b[j] = 1
         IN  [i \in 1..Len(b) |->
                 IF i < last THEN b[i] ELSE IF i = last THEN 1 ELSE 0]

\* The double nearest to bits * 2^e (sticky: a nonzero remainder lies below
\* the last digit of bits), ties to even.
RoundBits(neg, bits, e, sticky) ==
    LET b == StripZeros(bits)
        n == Len(b)
    IN  IF n = 0 THEN Zero
        ELSE IF n <= Precision
             THEN [neg |-> neg, m |-> b \o Zeros(Precision - n),
                   e |-> e - (Precision - n)]
        ELSE LET top   == SubSeq(b, 1, Precision)
                 guard == b[Precision + 1]
                 rest  == sticky \/ \E i \in (Precision + 2)..n : b[i] = 1
                 up    == guard = 1 /\ (rest \/ top[Precision] = 1)
                 inc   == IF up THEN BitsInc(top) ELSE top
                 drop  == n - Precision
             IN  IF Len(inc) > Precision
                 THEN [neg |-> neg, m |-> SubSeq(inc, 1, Precision),
                       e |-> e + drop + 1]
                 ELSE [neg |-> neg, m |-> inc, e |-> e + drop]

\* float(n) for an int n
IntToFloat(n) == RoundBits(n < 0, NatBits(Abs(n)), 0, FALSE)

RECURSIVE DivDigits(_, _, _, _)
\* long division, LimbWidth quotient digits at a time: the quotient digits so
\* far (acc, of which frac lie after the binary point) are extended until
\* Precision + 1 significant digits exist or the division is exact
DivDigits(r, b, acc, frac) ==
    IF Len(StripZeros(acc)) >= Precision + 1 \/ r = 0
    THEN [bits |-> acc, frac |-> frac, sticky |-> r # 0]
    ELSE LET v == r * (2 ^ LimbWidth)
         IN  DivDigits(v % b, b, acc \o FixedBits(v \div b, LimbWidth),
                       frac + LimbWidth)

\* a / b for ints a and 0 < b < 2^14 (true division, correctly rounded)
PyTrueDiv(a, b) ==
    IF a = 0 THEN Zero
    ELSE LET d == DivDigits(Abs(a) % b, b, NatBits(Abs(a) \div b), 0)
         IN  RoundBits(a < 0, d.bits, -d.frac, d.sticky)

\* f * n for a float f and an int n (n is converted exactly, |n| < 2^14);
\* the sign of a zero product is not kept (0.0 == -0.0 in Python)
PyFloatMulInt(f, n) ==
    IF f.m = <<>> \/ n = 0 THEN Zero
    ELSE RoundBits(f.neg # (n < 0), BitsMul(f.m, Abs(n)), f.e, FALSE)

\* an int held where a float is expected
IntValue(n) == [int |-> n]

\* float(x): an int is converted, a float is returned as it is
PyFloat(x) == IF "int" \in DOMAIN x THEN IntToFloat(x.int) ELSE x

\* int(x) of an int (only len() results and sums of ints reach it)
PyInt(n) == n

(***************************************************************************)
(* Post records (app/data/collector.py, lines 39-50). content and url are  *)
(* opaque to the aggregation and left out.                                 *)
(***************************************************************************)
Rec(p, d, l, c, s, sent) ==
    [platform |-> p, date |-> d,
     engagement |-> [likes |-> l, comments |-> c, shares |-> s],
     sentiment |-> sent]

\* "2024-01-01", "2024-01-02", "2023-12-31"
Day1 == <<50, 48, 50, 52, 45, 48, 49, 45, 48, 49>>
Day2 == <<50, 48, 50, 52, 45, 48, 49, 45, 48, 50>>
Day0 == <<50, 48, 50, 51, 45, 49, 50, 45, 51, 49>>
\* " 10:00:00", " 23:59:59"
Time1 == <<32, 49, 48, 58, 48, 48, 58, 48, 48>>
Time2 == <<32, 50, 51, 58, 53, 57, 58, 53, 57>>
\* "n/a"
NotADate == <<110, 47, 97>>

IsDigit(c) == c \in 48..57

\* the format the collector writes: strftime("%Y-%m-%d %H:%M:%S")
WellFormedDate(d) ==
    /\ Len(d) = 19
    /\ \A i \in 1..19 :
          CASE i \in {5, 8}   -> d[i] = 45
            [] i = 11         -> d[i] = 32
            [] i \in {14, 17} -> d[i] = 58
            [] OTHER          -> IsDigit(d[i])

\* the record contract: non-negative counts and a well-formed timestamp
ValidRecord(r) ==
    /\ r.engagement.likes >= 0
    /\ r.engagement.comments >= 0
    /\ r.engagement.shares >= 0
    /\ WellFormedDate(r.date)

RecA == Rec("X", Day1 \o Time1, 10, 0, 0, "positive")
RecB == Rec("X", Day2 \o Time1, 20, 0, 0, "negative")
RecC == Rec("Instagram", Day1 \o Time2, 1, 2, 3, "positive")
RecD == Rec("x", Day2 \o Time1, 0, 0, 0, "neutral")
RecE == Rec("Instagram", Day0 \o Time2, 5, 5, 5, "negative")
RecDateOnly == Rec("Facebook", Day1, 4, 0, 1, "neutral")
RecNegative == Rec("X", Day1 \o Time1, -1, 0, 0, "positive")
RecNoDate == Rec("X", <<>>, 1, 0, 0, "positive")
RecBadDate == Rec("Instagram", NotADate, 2, 0, 0, "neutral")

Records ==
    {RecA, RecB, RecC, RecD, RecE, RecDateOnly, RecNegative, RecNoDate,
     RecBadDate}

\* a run of n records of one platform: the first with the given likes count,
\* the others without engagement
Run(n, likes) ==
    [i \in 1..n |->
        IF i = 1 THEN Rec("X", Day1 \o Time1, likes, 0, 0, "positive")
        ELSE Rec("X", Day1 \o Time2, 0, 0, 0, "neutral")]

\* the record sequences one process_data call is checked on
Inputs ==
    SeqsUpTo(Records, MaxLen)
        \cup {Run(n, l) : n \in 1..MaxRun, l \in 1..MaxLikes}

(***************************************************************************)
(* dict, as a sequence of entries in insertion order.                      *)
(***************************************************************************)
Keys(d) == {d[i].key : i \in 1..Len(d)}

Get(d, k) == (CHOOSE i \in 1..Len(d) : d[i].key = k)

\* d[k] = v: an existing key keeps its place, a new key goes last
Put(d, k, v) ==
    IF k \in Keys(d) THEN [d EXCEPT ![Get(d, k)].val = v]
    ELSE Append(d, [key |-> k, val |-> v])

RECURSIVE Unique(_)
\* Series.unique(): the distinct values in order of first appearance
Unique(s) ==
    IF s = <<>> THEN <<>>
    ELSE LET init == Unique(SubSeq(s, 1, Len(s) - 1))
             x    == s[Len(s)]
         IN  IF x \in Range(init) THEN init ELSE Append(init, x)

RECURSIVE Insert(_, _)
Insert(sorted, x) ==
    IF sorted = <<>> THEN <<x>>
    ELSE IF StrLess(x.key, Head(sorted).key) THEN <<x>> \o sorted
    ELSE <<Head(sorted)>> \o Insert(Tail(sorted), x)

RECURSIVE SortedItems(_)
\* dict(sorted(d.items())): the entries by ascending key (the keys are distinct)
SortedItems(d) ==
    IF d = <<>> THEN <<>>
    ELSE Insert(SortedItems(SubSeq(d, 1, Len(d) - 1)), d[Len(d)])

(***************************************************************************)
(* SocialMediaDataProcessor.process_data: the aggregates.                  *)
(***************************************************************************)
EngagementOf(r) ==
    r.engagement.likes + r.engagement.comments + r.engagement.shares

EngagementSeq(data) == [i \in 1..Len(data) |-> EngagementOf(data[i])]

\* Faulty variant of Where: the frame is used without the row filter.
WhereUnfiltered(data, col, v) == data

\* df[df[col] == v]
Where(data, col, v) == SelectSeq(data, LAMBDA r : r[col] = v)

TotalEngagement(data) == SumSeq(EngagementSeq(data))

\* Faulty variant of PlatformEntry: the average is taken over all rows of the
\* frame instead of the rows of the platform.
PlatformEntryAllRows(data, platform) ==
    LET platform_df         == Where(data, "platform", platform)
        platform_engagement == SumSeq(EngagementSeq(platform_df))
    IN  [key |-> platform,
         val |-> [total_engagement |-> platform_engagement,
                  posts |-> Len(platform_df),
                  avg_engagement |->
                      IF Len(data) > 0
                      THEN PyTrueDiv(platform_engagement, Len(data))
                      ELSE IntValue(0)]]

PlatformEntry(data, platform) ==
    LET platform_df         == Where(data, "platform", platform)
        platform_engagement == SumSeq(EngagementSeq(platform_df))
    IN  [key |-> platform,
         val |-> [total_engagement |-> platform_engagement,
                  posts |-> Len(platform_df),
                  avg_engagement |->
                      IF Len(platform_df) > 0
                      THEN PyTrueDiv(platform_engagement, Len(platform_df))
                      ELSE IntValue(0)]]

PlatformStats(data) ==
    LET platforms == Unique([i \in 1..Len(data) |-> data[i].platform])
    IN  [j \in 1..Len(platforms) |-> PlatformEntry(data, platforms[j])]

SentimentEntry(data, sentiment) ==
    LET sentiment_df == Where(data, "sentiment", sentiment)
    IN  [key |-> sentiment,
         val |-> [count |-> Len(sentiment_df),
                  percentage |->
                      PyFloatMulInt(
                          PyTrueDiv(Len(sentiment_df), Len(data)), 100)]]

SentimentStats(data) ==
    LET sentiments == Unique([i \in 1..Len(data) |-> data[i].sentiment])
    IN  [j \in 1..Len(sentiments) |-> SentimentEntry(data, sentiments[j])]

\* row["date"].split()[0] raises IndexError for a date without a token
DateRaises(data) == \E i \in 1..Len(data) : ~HasToken(data[i].date)

RECURSIVE DailyTotalsOverwrite(_)
\* Faulty variant of DailyTotals: a date seen again is assigned, not added to.
DailyTotalsOverwrite(data) ==
    IF data = <<>> THEN <<>>
    ELSE LET d     == DailyTotalsOverwrite(SubSeq(data, 1, Len(data) - 1))
             row   == data[Len(data)]
         IN  Put(d, SplitFirst(row.date), EngagementOf(row))

RECURSIVE DailyTotals(_)
\* the loop of lines 81-90: one entry per date, in order of first appearance
DailyTotals(data) ==
    IF data = <<>> THEN <<>>
    ELSE LET d     == DailyTotals(SubSeq(data, 1, Len(data) - 1))
             row   == data[Len(data)]
             date  == SplitFirst(row.date)
             total == EngagementOf(row)
         IN  IF date \in Keys(d)
             THEN Put(d, date, d[Get(d, date)].val + total)
             ELSE Put(d, date, total)

\* Faulty variant of DailyEngagement: line 93 without sorted().
DailyEngagementUnsorted(data) == DailyTotals(data)

\* line 93
DailyEngagement(data) == SortedItems(DailyTotals(data))

(***************************************************************************)
(* GeminiService._parse_insights (gemini_service.py, lines 133-161).       *)
(***************************************************************************)
RECURSIVE SplitLines(_)
\* s.split('\n')
SplitLines(s) ==
    IF \A i \in 1..Len(s) : s[i] # 10 THEN <<s>>
    ELSE LET k == CHOOSE i \in 1..Len(s) :
                      s[i] = 10 /\ \A j \in 1..(i - 1) : s[j] # 10
         IN  <<SubSeq(s, 1, k - 1)>> \o SplitLines(SubSeq(s, k + 1, Len(s)))

\* s.strip(): without the whitespace at both ends
Strip(s) ==
    IF \A i \in 1..Len(s) : IsSpace(s[i]) THEN <<>>
    ELSE LET first == CHOOSE i \in 1..Len(s) :
                          ~IsSpace(s[i]) /\ \A j \in 1..(i - 1) : IsSpace(s[j])
             last  == CHOOSE i \in 1..Len(s) :
                          ~IsSpace(s[i])
                              /\ \A j \in (i + 1)..Len(s) : IsSpace(s[j])
         IN  SubSeq(s, first, last)

\* s.lstrip(chars): without the leading characters that are in chars
LStrip(s, chars) ==
    IF \A i \in 1..Len(s) : s[i] \in chars THEN <<>>
    ELSE LET first == CHOOSE i \in 1..Len(s) :
                          s[i] \notin chars
                              /\ \A j \in 1..(i - 1) : s[j] \in chars
         IN  SubSeq(s, first, Len(s))

\* the characters of '1234567890.*- ' (line 147)
NumberingChars == (48..57) \cup {46, 42, 45, 32}

\* c.upper() for an ASCII character
Upper(c) == IF c \in 97..122 THEN c - 32 ELSE c

\* line 153: insight[0].upper() + insight[1:]
Capitalize(s) == IF s = <<>> THEN s ELSE <<Upper(s[1])>> \o Tail(s)

\* line 154: insight + '.' unless it ends with '.'
WithPeriod(s) ==
    IF s # <<>> /\ s[Len(s)] = 46 THEN s ELSE Append(s, 46)

\* len(insight) > 10 (line 150)
ShortLength == 10

\* insights[:5] (line 158)
MaxInsights == 5

\* Faulty variant of TopInsights: every insight is kept.
TopInsightsAll(insights) == insights

\* line 158: insights[:5]
TopInsights(insights) ==
    SubSeq(insights, 1, IF Len(insights) < MaxInsights THEN Len(insights)
                        ELSE MaxInsights)

\* "• "
Bullet == <<8226, 32>>

NonEmpty(s) == s # <<>>

LongEnough(s) == Len(s) > ShortLength

\* lines 144-161
ParseInsights(response_text) ==
    LET split == SplitLines(response_text)
        lines == SelectSeq([i \in 1..Len(split) |-> Strip(split[i])], NonEmpty)
        plain == [i \in 1..Len(lines) |-> LStrip(lines[i], NumberingChars)]
        long  == SelectSeq(plain, LongEnough)
        sentences == [i \in 1..Len(long) |-> WithPeriod(Capitalize(long[i]))]
        top   == TopInsights(sentences)
    IN  [i \in 1..Len(top) |-> Bullet \o top[i]]

(***************************************************************************)
(* Format specifications of f-strings.                                     *)
(***************************************************************************)
RECURSIVE DecDigits(_, _)
\* the last d decimal digits of n, as text
DecDigits(n, d) ==
    IF d = 0 THEN "" ELSE DecDigits(n \div 10, d - 1) \o ToString(n % 10)

\* |f| * k rounded to an integer, ties to even, for a float f and an int
\* 0 < k < 2^14: |f| * k = p * 2^e exactly, with p the digits of m * k
ScaledRound(f, k) ==
    IF f.m = <<>> THEN 0
    ELSE LET p   == BitsMul(f.m, k)
             n   == Len(p)
             cut == n + f.e
         IN  IF f.e >= 0 THEN BitsVal(p \o Zeros(f.e))
             ELSE IF cut < 0 THEN 0
             ELSE LET whole == BitsVal(SubSeq(p, 1, cut))
                      guard == p[cut + 1]
                      rest  == \E i \in (cut + 2)..n : p[i] = 1
                      up    == guard = 1 /\ (rest \/ whole % 2 = 1)
                  IN  IF up THEN whole + 1 ELSE whole

\* f"{x:.<d>f}" for a float or an int x: the decimal nearest to the exact
\* value of x with d digits after the point
FormatFixed(x, d) ==
    IF "int" \in DOMAIN x
    THEN (IF x.int < 0 THEN "-" ELSE "")
             \o ToString(Abs(x.int)) \o "." \o DecDigits(0, d)
    ELSE LET h == ScaledRound(x, 10 ^ d)
         IN  (IF x.neg THEN "-" ELSE "")
                 \o ToString(h \div (10 ^ d)) \o "." \o DecDigits(h, d)

(***************************************************************************)
(* GoogleSheetsService (app/services/sheets_service.py).  A worksheet is   *)
(* the list of rows last written to it; a row is a tuple of cells.         *)
(***************************************************************************)
\* dict.get(key, default)
DictGet(d, k, default) == IF k \in Keys(d) THEN d[Get(d, k)].val ELSE default

\* a Python list, told apart from the values that are not lists
PyList(s) == [list |-> s]

\* isinstance(v, list)
IsList(v) == "list" \in DOMAIN v

\* a Python str held where a list is expected
PyStr(s) == [str |-> s]

ZeroDivisionError == [raised |-> "ZeroDivisionError"]

Raised(c) == "raised" \in DOMAIN c

\* Faulty variant of AverageEngagementRate: the division is not guarded.
AverageEngagementRateUnguarded(total_engagement, total_posts) ==
    IF total_posts = 0 THEN ZeroDivisionError
    ELSE [cell |-> FormatFixed(PyTrueDiv(total_engagement, total_posts), 2)]

\* line 226: the cell of the "Average Engagement Rate" row
AverageEngagementRate(total_engagement, total_posts) ==
    IF total_posts > 0
    THEN [cell |-> FormatFixed(PyTrueDiv(total_engagement, total_posts), 2)]
    ELSE [cell |-> "0"]

\* lines 235-236: the "Avg. Engagement" cell of a platform row
PlatformAverage(engagement, platform_posts) ==
    IF platform_posts > 0
    THEN [cell |-> FormatFixed(PyTrueDiv(engagement, platform_posts), 2)]
    ELSE [cell |-> FormatFixed(IntValue(0), 2)]

\* lines 247-248: the "Percentage" cell of a sentiment row
SentimentPercentage(count, total_posts) ==
    IF total_posts > 0
    THEN [cell |->
             FormatFixed(PyFloatMulInt(PyTrueDiv(count, total_posts), 100), 1)
                 \o "%"]
    ELSE [cell |-> FormatFixed(IntValue(0), 1) \o "%"]

\* lines 256-265: one row per insight, or the placeholder row
InsightRows(insights) ==
    IF insights # <<>>
    THEN [i \in 1..Len(insights) |-> <<insights[i], "">>]
    ELSE <<<<"No insights available", "">>>>

\* lines 203-265: metrics_data of update_metrics_sheet(brand_name, metrics),
\* or the exception raised while it is built
MetricsData(arg) ==
    LET total_posts      == DictGet(arg, "total_posts", 0)
        total_engagement == DictGet(arg, "total_engagement", 0)
        platform_stats   == DictGet(arg, "platform_stats", <<>>)
        sentiment_stats  == DictGet(arg, "sentiment_stats", <<>>)
        raw_data         == DictGet(arg, "raw_data", <<>>)
        given            == DictGet(arg, "insights", PyList(<<>>))
        insights         == IF IsList(given) THEN given.list ELSE <<>>
        rate == AverageEngagementRate(total_engagement, total_posts)
        PlatformPosts(platform) ==
            Cardinality({j \in 1..Len(raw_data) :
                            raw_data[j].platform = platform})
        avg == [i \in 1..Len(platform_stats) |->
                   PlatformAverage(platform_stats[i].val,
                                   PlatformPosts(platform_stats[i].key))]
        pct == [i \in 1..Len(sentiment_stats) |->
                   SentimentPercentage(sentiment_stats[i].val, total_posts)]
    IN  IF \/ Raised(rate)
           \/ \E i \in 1..Len(avg) : Raised(avg[i])
           \/ \E i \in 1..Len(pct) : Raised(pct[i])
        THEN ZeroDivisionError
        ELSE [rows |->
                 << <<"Metrics", "Value">>,
                    <<"Total Posts", total_posts>>,
                    <<"Total Engagement", total_engagement>>,
                    <<"Average Engagement Rate", rate.cell>>,
                    <<"", "">>,
                    <<"Platform Statistics", "">>,
                    <<"Platform", "Total Engagement", "Posts",
                      "Avg. Engagement">> >>
                 \o [i \in 1..Len(platform_stats) |->
                        <<platform_stats[i].key, platform_stats[i].val,
                          PlatformPosts(platform_stats[i].key), avg[i].cell>>]
                 \o << <<"", "">>,
                       <<"Sentiment Distribution", "">>,
                       <<"Sentiment", "Count", "Percentage">> >>
                 \o [i \in 1..Len(sentiment_stats) |->
                        <<sentiment_stats[i].key, sentiment_stats[i].val,
                          pct[i].cell>>]
                 \o << <<"", "">>,
                       <<"AI-Generated Insights", "">> >>
                 \o InsightRows(insights)]

\* lines 155-168: the rows of update_data_sheet (content and url left out)
DataRows(data) ==
    << <<"Date", "Platform", "Likes", "Comments", "Shares", "Sentiment">> >>
        \o [i \in 1..Len(data) |->
               <<data[i].date, data[i].platform, data[i].engagement.likes,
                 data[i].engagement.comments, data[i].engagement.shares,
                 data[i].sentiment>>]

\* lines 324-330: the cells create_dashboard_sheet fills in
DashboardRows ==
    << <<"Social Media Dashboard">>, <<"Last Updated">>,
       <<"Platform Performance">>, <<"Sentiment Distribution">>,
       <<"Engagement Trends">> >>

(***************************************************************************)
(* The state.                                                              *)
(*                                                                         *)
(* main.py builds one SocialMediaDataProcessor for the whole process       *)
(* (line 41), so its self.metrics dict is shared by every call.  A caller  *)
(* is one invocation context: a search_brand request, or a direct call of  *)
(* process_data.  Each keeps what the call handed back to it.              *)
(***************************************************************************)
Callers == {1, 2}

VARIABLES
    metrics,    \* data_processor.metrics, the dict made in __init__
    pc,         \* pc[t]: the statement caller t is at
    entry,      \* entry[t]: "search" (search_brand) or "direct" (process_data)
    data,       \* data[t]: the record sequence of caller t
    insights,   \* insights[t]: the local insights of process_data (line 96)
    attempt,    \* attempt[t]: failed attempts of the generate_insights call
                \*             that t is in or has just left
    slept,      \* slept[t]: the waits of the retry decorator in that call
    results,    \* results[t]: what process_data returned to caller t
    outcome,    \* outcome[t]: how the last process_data call of t ended
    sheets,     \* sheets[t]: how the spreadsheet update of request t ended
    response,   \* response[t]: the HTTP response of request t
    returned,   \* returned[t]: the value of results[t].metrics at return time
    later,      \* later[t]: process_data calls begun by other callers since
                \*           the last call of t began, counted up to 2
    spreadsheet, \* the worksheets of the spreadsheet of the brand of the
                \* running request (each request searches a brand of its own)
    handed,     \* self.metrics has been passed to generate_insights
    collected,  \* collected[t]: what collect_data did for the running
                \*               request t, or for one it made fail
    ai,         \* ai[t]: how the generate_insights call of request t ended
    sheetCall,  \* the last direct call of update_metrics_sheet
    parseCall   \* the last direct call of _parse_insights

vars ==
    <<metrics, pc, entry, data, insights, attempt, slept, results, outcome,
      sheets, response, returned, later, spreadsheet, handed, collected, ai,
      sheetCall, parseCall>>

\* the records of the calls made on a function by itself
fnVars == <<sheetCall, parseCall>>

EmptyMetrics ==
    [total_posts |-> 0, total_engagement |-> 0, platform_stats |-> <<>>,
     sentiment_stats |-> <<>>, daily_engagement |-> <<>>, raw_data |-> <<>>]

None == [none |-> TRUE]

\* stop_after_attempt(3)
MaxAttempts == 3

\* wait_exponential(multiplier=1, min=4, max=10)
WaitMultiplier == 1
WaitMin == 4
WaitMax == 10

Min(a, b) == IF a < b THEN a ELSE b

Max(a, b) == IF a > b THEN a ELSE b

\* Faulty variant of WaitExponential: the exponential without min and max.
WaitUnclamped(attempt_number) == WaitMultiplier * 2 ^ (attempt_number - 1)

\* wait_exponential.__call__ after the failure of attempt attempt_number:
\* max(max(0, min), min(multiplier * 2 ** (attempt_number - 1), max))
WaitExponential(attempt_number) ==
    Max(Max(0, WaitMin),
        Min(WaitMultiplier * 2 ^ (attempt_number - 1), WaitMax))

\* what _parse_insights can hand back for a response of the model
GeneratedInsights == {<<>>, <<"insight">>}

NoDataInsights == <<"No data available for analysis.">>
NoAIInsights == <<"No AI insights available at this time.">>
UnableInsights == <<"Unable to generate AI insights at this time.">>

\* The metrics dict a results value refers to.  The dict returned at line 112
\* is self.metrics itself, the one returned at lines 27-34 is a new dict.
Snapshot(res) == IF res.shared THEN metrics ELSE res.metrics

\* the spreadsheet "Social Listening - <brand>" before the first request
\* for the brand: no worksheet of the service exists
NoSpreadsheet == [raw |-> None, metrics |-> None, dashboard |-> None]

Init ==
    /\ metrics = EmptyMetrics
    /\ pc = [t \in Callers |-> "idle"]
    /\ entry = [t \in Callers |-> "direct"]
    /\ data = [t \in Callers |-> <<>>]
    /\ insights = [t \in Callers |-> <<>>]
    /\ attempt = [t \in Callers |-> 0]
    /\ slept = [t \in Callers |-> <<>>]
    /\ results = [t \in Callers |-> None]
    /\ outcome = [t \in Callers |-> "none"]
    /\ sheets = [t \in Callers |-> "none"]
    /\ response = [t \in Callers |-> None]
    /\ returned = [t \in Callers |-> None]
    /\ later = [t \in Callers |-> 0]
    /\ spreadsheet = NoSpreadsheet
    /\ handed = FALSE
    /\ collected = [t \in Callers |-> None]
    /\ ai = [t \in Callers |-> None]
    /\ sheetCall = None
    /\ parseCall = None

\* no call is in progress
Quiescent == \A t \in Callers : pc[t] = "idle"

(***************************************************************************)
(* process_data, statement by statement.                                   *)
(***************************************************************************)
\* An exception leaves process_data.  A direct caller sees it; in
\* search_brand it is caught at line 111 and answered with status 500.
Raise(t, error) ==
    /\ pc' = [pc EXCEPT ![t] = "idle"]
    /\ outcome' = [outcome EXCEPT ![t] = "raised"]
    /\ results' = [results EXCEPT ![t] = None]
    /\ returned' = [returned EXCEPT ![t] = None]
    /\ response' =
          [response EXCEPT ![t] =
              IF entry[t] = "search"
              THEN [status |-> 500, detail |-> error]
              ELSE None]

\* Faulty variant of EmptyResult: self.metrics is returned for an empty input.
EmptyResultShared ==
    [shared |-> TRUE, metrics |-> None, insights |-> NoDataInsights]

\* lines 26-36: what the call returns for an empty input
EmptyResult ==
    [shared |-> FALSE, metrics |-> EmptyMetrics, insights |-> NoDataInsights]

\* lines 22-39: the call; an empty input returns at once with new dicts
ProcessData(t, R) ==
    /\ later' = [u \in Callers |->
                    IF u = t THEN 0 ELSE IF later[u] < 2 THEN later[u] + 1 ELSE 2]
    /\ data' = [data EXCEPT ![t] = R]
    /\ insights' = [insights EXCEPT ![t] = <<>>]
    /\ attempt' = [attempt EXCEPT ![t] = 0]
    /\ slept' = [slept EXCEPT ![t] = <<>>]
    /\ outcome' = [outcome EXCEPT ![t] = IF R = <<>> THEN "returned" ELSE "none"]
    /\ IF R = <<>>
       THEN /\ results' = [results EXCEPT ![t] = EmptyResult]
            /\ returned' = [returned EXCEPT ![t] = Snapshot(EmptyResult)]
            /\ pc' = [pc EXCEPT ![t] =
                         IF entry'[t] = "search" THEN "ai_insights" ELSE "idle"]
            /\ UNCHANGED metrics
       ELSE /\ results' = [results EXCEPT ![t] = None]
            /\ returned' = [returned EXCEPT ![t] = None]
            /\ metrics' = [metrics EXCEPT !.raw_data = R]
            /\ pc' = [pc EXCEPT ![t] = "total_posts"]
    /\ UNCHANGED <<handed, fnVars>>

\* a direct call of process_data(R)
Call(t, R) ==
    /\ pc[t] = "idle"
    /\ entry' = [entry EXCEPT ![t] = "direct"]
    /\ sheets' = [sheets EXCEPT ![t] = "none"]
    /\ response' = [response EXCEPT ![t] = None]
    /\ collected' = [collected EXCEPT ![t] = None]
    /\ ai' = [ai EXCEPT ![t] = None]
    /\ UNCHANGED spreadsheet
    /\ ProcessData(t, R)

\* Faulty variant of TotalPosts: the count is added to the stored one.
TotalPostsAccumulate(t) ==
    /\ pc[t] = "total_posts"
    /\ metrics' = [metrics EXCEPT !.total_posts = @ + Len(data[t])]
    /\ pc' = [pc EXCEPT ![t] = "total_engagement"]
    /\ UNCHANGED <<entry, data, insights, attempt, results, outcome, sheets,
                   response, returned, later, slept,
                   spreadsheet, handed, collected, ai, fnVars>>

\* lines 41-45
TotalPosts(t) ==
    /\ pc[t] = "total_posts"
    /\ metrics' = [metrics EXCEPT !.total_posts = Len(data[t])]
    /\ pc' = [pc EXCEPT ![t] = "total_engagement"]
    /\ UNCHANGED <<entry, data, insights, attempt, results, outcome, sheets,
                   response, returned, later, slept,
                   spreadsheet, handed, collected, ai, fnVars>>

\* lines 47-52
TotalEngagementStep(t) ==
    /\ pc[t] = "total_engagement"
    /\ metrics' = [metrics EXCEPT !.total_engagement = TotalEngagement(data[t])]
    /\ pc' = [pc EXCEPT ![t] = "platform_stats"]
    /\ UNCHANGED <<entry, data, insights, attempt, results, outcome, sheets,
                   response, returned, later, slept,
                   spreadsheet, handed, collected, ai, fnVars>>

\* lines 54-68
PlatformStatsStep(t) ==
    /\ pc[t] = "platform_stats"
    /\ metrics' = [metrics EXCEPT !.platform_stats = PlatformStats(data[t])]
    /\ pc' = [pc EXCEPT ![t] = "sentiment_stats"]
    /\ UNCHANGED <<entry, data, insights, attempt, results, outcome, sheets,
                   response, returned, later, slept,
                   spreadsheet, handed, collected, ai, fnVars>>

\* lines 70-78
SentimentStatsStep(t) ==
    /\ pc[t] = "sentiment_stats"
    /\ metrics' = [metrics EXCEPT !.sentiment_stats = SentimentStats(data[t])]
    /\ pc' = [pc EXCEPT ![t] = "daily_engagement"]
    /\ UNCHANGED <<entry, data, insights, attempt, results, outcome, sheets,
                   response, returned, later, slept,
                   spreadsheet, handed, collected, ai, fnVars>>

\* lines 80-93: the loop and the sorted assignment; an IndexError of
\* split()[0] leaves the function before line 93
DailyEngagementStep(t) ==
    /\ pc[t] = "daily_engagement"
    /\ IF DateRaises(data[t])
       THEN /\ Raise(t, "IndexError")
            /\ UNCHANGED <<metrics, entry, data, insights, attempt, sheets,
                           later, slept,
                   spreadsheet, handed, collected, ai, fnVars>>
       ELSE /\ metrics' =
                  [metrics EXCEPT !.daily_engagement = DailyEngagement(data[t])]
            /\ pc' = [pc EXCEPT ![t] = "insights"]
            /\ UNCHANGED <<entry, data, insights, attempt, results, outcome,
                           sheets, response, returned, later, slept,
                   spreadsheet, handed, collected, ai, fnVars>>

\* line 96, an attempt of generate_insights that returns (lines 31-70)
InsightsReturn(t, ins) ==
    /\ pc[t] = "insights"
    /\ handed' = TRUE
    /\ insights' = [insights EXCEPT ![t] = ins]
    /\ pc' = [pc EXCEPT ![t] = "normalize"]
    /\ UNCHANGED <<metrics, entry, data, attempt, slept, results, outcome,
                   sheets, response, returned, later,
                   spreadsheet, collected, ai, fnVars>>

\* line 96, an attempt of generate_insights that raises (lines 72-74): the
\* retry decorator of line 18 sleeps and calls again, and after the third
\* failure it raises RetryError, which process_data does not catch
InsightsFail(t) ==
    /\ pc[t] = "insights"
    /\ handed' = TRUE
    /\ attempt' = [attempt EXCEPT ![t] = @ + 1]
    /\ IF attempt[t] + 1 < MaxAttempts
       THEN /\ slept' = [slept EXCEPT
                            ![t] = Append(@, WaitExponential(attempt[t] + 1))]
            /\ UNCHANGED <<metrics, pc, entry, data, insights, results,
                           outcome, sheets, response, returned, later,
                   spreadsheet, collected, ai, fnVars>>
       ELSE /\ Raise(t, "RetryError")
            /\ UNCHANGED <<metrics, entry, data, insights, slept, sheets,
                           later,
                   spreadsheet, collected, ai, fnVars>>

NormalizeStats(stats) ==
    [i \in 1..Len(stats) |->
        [key |-> stats[i].key,
         val |-> [total_engagement |-> PyInt(stats[i].val.total_engagement),
                  posts |-> PyInt(stats[i].val.posts),
                  avg_engagement |-> PyFloat(stats[i].val.avg_engagement)]]]

NormalizeSentiments(stats) ==
    [i \in 1..Len(stats) |->
        [key |-> stats[i].key,
         val |-> [count |-> PyInt(stats[i].val.count),
                  percentage |-> PyFloat(stats[i].val.percentage)]]]

\* lines 98-109: the conversions, written back into self.metrics
Normalize(t) ==
    /\ pc[t] = "normalize"
    /\ metrics' =
          [metrics EXCEPT
              !.total_posts = PyInt(@),
              !.total_engagement = PyInt(@),
              !.platform_stats = NormalizeStats(@),
              !.sentiment_stats = NormalizeSentiments(@)]
    /\ pc' = [pc EXCEPT ![t] = "return"]
    /\ UNCHANGED <<entry, data, insights, attempt, results, outcome, sheets,
                   response, returned, later, slept,
                   spreadsheet, handed, collected, ai, fnVars>>

\* lines 111-114: the returned dict holds self.metrics itself
Return(t) ==
    /\ pc[t] = "return"
    /\ results' = [results EXCEPT ![t] =
                      [shared |-> TRUE, metrics |-> None,
                       insights |-> insights[t]]]
    /\ returned' = [returned EXCEPT ![t] = metrics]
    /\ outcome' = [outcome EXCEPT ![t] = "returned"]
    /\ pc' = [pc EXCEPT ![t] =
                 IF entry[t] = "search" THEN "ai_insights" ELSE "idle"]
    /\ attempt' = [attempt EXCEPT ![t] = 0]
    /\ slept' = [slept EXCEPT ![t] = <<>>]
    /\ UNCHANGED <<metrics, entry, data, insights, sheets, response, later,
                   spreadsheet, handed, collected, ai, fnVars>>

(***************************************************************************)
(* SocialMediaDataCollector.collect_data (collector.py, lines 57-108).     *)
(***************************************************************************)
\* what generate_simulated_data does in one call: it returns records of the
\* format of lines 39-50 (at least one per day of the period), or it raises
GenerationFailed == [raised |-> "generate_simulated_data"]

Generations == {[data |-> <<RecA, RecB>>], [data |-> <<RecC>>], GenerationFailed}

\* Faulty variant of SaveDataToJson: the exception of the write is raised.
SaveDataToJsonRaises(records, fails) ==
    IF fails THEN [file |-> None, raised |-> TRUE]
    ELSE [file |-> [content |-> records], raised |-> FALSE]

\* lines 65-80: the file is written, or the exception of the write is logged;
\* neither way raises
SaveDataToJson(records, fails) ==
    IF fails THEN [file |-> None, raised |-> FALSE]
    ELSE [file |-> [content |-> records], raised |-> FALSE]

\* lines 95-108: the list collect_data returns and the file it leaves; any
\* exception inside the try block makes it return the empty list
CollectData(generation, saveFails) ==
    IF Raised(generation)
    THEN [data |-> <<>>, generated |-> generation, file |-> None]
    ELSE LET saved == SaveDataToJson(generation.data, saveFails)
         IN  [data |-> IF saved.raised THEN <<>> ELSE generation.data,
              generated |-> generation, file |-> saved.file]

(***************************************************************************)
(* search_brand (main.py, lines 67-113).                                   *)
(***************************************************************************)
\* str(e) of the HTTPException of line 84, as the installed Starlette
\* renders it: "status: detail", or the empty text of a bare Exception
HTTPExceptionStr == {"404: No data found for the specified brand", ""}

\* lines 78-87: collect_data, then process_data.  For an empty list the
\* HTTPException of line 84 is raised inside the try block, caught as an
\* Exception at line 111 and replaced by the HTTPException of line 113.
Search(t, generation, saveFails, str) ==
    LET c == CollectData(generation, saveFails)
    IN  /\ pc[t] = "idle"
        /\ entry' = [entry EXCEPT ![t] = "search"]
        /\ sheets' = [sheets EXCEPT ![t] = "none"]
        /\ collected' = [collected EXCEPT ![t] = c]
        /\ ai' = [ai EXCEPT ![t] = None]
        /\ spreadsheet' = NoSpreadsheet
        /\ IF c.data = <<>>
           THEN /\ response' = [response EXCEPT ![t] =
                                   [status |-> 500, detail |-> str]]
                /\ data' = [data EXCEPT ![t] = c.data]
                /\ results' = [results EXCEPT ![t] = None]
                /\ returned' = [returned EXCEPT ![t] = None]
                /\ outcome' = [outcome EXCEPT ![t] = "none"]
                /\ attempt' = [attempt EXCEPT ![t] = 0]
                /\ slept' = [slept EXCEPT ![t] = <<>>]
                /\ UNCHANGED <<metrics, pc, insights, later, handed, fnVars>>
           ELSE /\ response' = [response EXCEPT ![t] = None]
                /\ ProcessData(t, c.data)

\* Faulty variant of AIInsightsReturn: the returned list is stored as it is.
AIInsightsReturnAsIs(t, ins) ==
    /\ pc[t] = "ai_insights"
    /\ handed' = (handed \/ results[t].shared)
    /\ ai' = [ai EXCEPT ![t] = [returned |-> ins]]
    /\ results' = [results EXCEPT ![t].insights = ins]
    /\ pc' = [pc EXCEPT ![t] = "sheets"]
    /\ UNCHANGED <<metrics, entry, data, insights, attempt, slept, outcome,
                   sheets, response, returned, later, spreadsheet, collected,
                   fnVars>>

\* lines 90-95: an attempt of the request's own generate_insights returns
AIInsightsReturn(t, ins) ==
    /\ pc[t] = "ai_insights"
    /\ handed' = (handed \/ results[t].shared)
    /\ ai' = [ai EXCEPT ![t] = [returned |-> ins]]
    /\ results' = [results EXCEPT ![t].insights =
                      IF ins = <<>> THEN NoAIInsights ELSE ins]
    /\ pc' = [pc EXCEPT ![t] = "sheets"]
    /\ UNCHANGED <<metrics, entry, data, insights, attempt, slept, outcome,
                   sheets, response, returned, later, spreadsheet, collected,
                   fnVars>>

\* lines 90-98: an attempt raises; the RetryError after the third failure is
\* caught at line 96
AIInsightsFail(t) ==
    /\ pc[t] = "ai_insights"
    /\ handed' = (handed \/ results[t].shared)
    /\ attempt' = [attempt EXCEPT ![t] = @ + 1]
    /\ IF attempt[t] + 1 < MaxAttempts
       THEN /\ slept' = [slept EXCEPT
                            ![t] = Append(@, WaitExponential(attempt[t] + 1))]
            /\ UNCHANGED <<pc, results, ai>>
       ELSE /\ results' = [results EXCEPT ![t].insights = UnableInsights]
            /\ ai' = [ai EXCEPT ![t] = [raised |-> "RetryError"]]
            /\ pc' = [pc EXCEPT ![t] = "sheets"]
            /\ UNCHANGED slept
    /\ UNCHANGED <<metrics, entry, data, insights, outcome, sheets, response,
                   returned, later, spreadsheet, collected, fnVars>>

\* the dict search_brand passes to update_metrics_sheet at line 103: results
ResultsDict(t) ==
    << [key |-> "metrics", val |-> Snapshot(results[t])],
       [key |-> "insights", val |-> PyList(results[t].insights)] >>

\* line 102: update_data_sheet returns
UpdateDataSheet(t) ==
    /\ pc[t] = "sheets"
    /\ spreadsheet' = [spreadsheet EXCEPT !.raw = [rows |-> DataRows(data[t])]]
    /\ pc' = [pc EXCEPT ![t] = "metrics_sheet"]
    /\ UNCHANGED <<metrics, entry, data, insights, attempt, slept, results,
                   outcome, sheets, response, returned, later, handed,
                   collected, ai, fnVars>>

\* line 103: update_metrics_sheet returns
UpdateMetricsSheet(t) ==
    /\ pc[t] = "metrics_sheet"
    /\ ~Raised(MetricsData(ResultsDict(t)))
    /\ spreadsheet' = [spreadsheet EXCEPT !.metrics = MetricsData(ResultsDict(t))]
    /\ pc' = [pc EXCEPT ![t] = "dashboard"]
    /\ UNCHANGED <<metrics, entry, data, insights, attempt, slept, results,
                   outcome, sheets, response, returned, later, handed,
                   collected, ai, fnVars>>

\* line 104: create_dashboard_sheet returns, the last of the three calls
SheetsUpdated(t) ==
    /\ pc[t] = "dashboard"
    /\ spreadsheet' = [spreadsheet EXCEPT !.dashboard = [rows |-> DashboardRows]]
    /\ sheets' = [sheets EXCEPT ![t] = "updated"]
    /\ pc' = [pc EXCEPT ![t] = "respond"]
    /\ UNCHANGED <<metrics, entry, data, insights, attempt, slept, results,
                   outcome, response, returned, later, handed, collected, ai,
                   fnVars>>

\* how far a spreadsheet call got before it raised: nothing written, the
\* worksheet cleared (or newly added), or the rows written
SheetEffects == {"none", "cleared", "written"}

\* the worksheet ws after a call that was to write rows raised
AfterFailure(ws, rows, effect) ==
    CASE effect = "none"    -> ws
      [] effect = "cleared" -> [rows |-> <<>>]
      [] effect = "written" -> [rows |-> rows]

\* Faulty variant of SheetsFailed: the exception of the spreadsheet call is
\* not caught at line 105 and reaches the handler of line 111.
SheetsFailedPropagates(t, effect) ==
    /\ pc[t] \in {"sheets", "metrics_sheet", "dashboard"}
    /\ sheets' = [sheets EXCEPT ![t] = "failed"]
    /\ Raise(t, "APIError")
    /\ UNCHANGED <<metrics, entry, data, insights, attempt, slept, later,
                   spreadsheet, handed, collected, ai, fnVars>>

\* lines 100-107: one of the three spreadsheet calls raises; the exception
\* is logged at line 106 and the calls after it are skipped
SheetsFailed(t, effect) ==
    /\ pc[t] \in {"sheets", "metrics_sheet", "dashboard"}
    /\ spreadsheet' =
          CASE pc[t] = "sheets" ->
                   [spreadsheet EXCEPT
                       !.raw = AfterFailure(@, DataRows(data[t]), effect)]
            [] pc[t] = "metrics_sheet" ->
                   LET built == MetricsData(ResultsDict(t))
                   IN  IF Raised(built) THEN spreadsheet
                       ELSE [spreadsheet EXCEPT
                               !.metrics = AfterFailure(@, built.rows, effect)]
            [] pc[t] = "dashboard" ->
                   [spreadsheet EXCEPT
                       !.dashboard =
                           IF effect = "none" THEN @
                           ELSE [rows |-> DashboardRows]]
    /\ sheets' = [sheets EXCEPT ![t] = "failed"]
    /\ pc' = [pc EXCEPT ![t] = "respond"]
    /\ UNCHANGED <<metrics, entry, data, insights, attempt, slept, results,
                   outcome, response, returned, later, handed, collected, ai,
                   fnVars>>

\* line 109: JSONResponse renders results as it is at that moment, and the
\* request ends: its locals go out of scope, and the model stops following
\* the spreadsheet of its brand
Respond(t) ==
    /\ pc[t] = "respond"
    /\ response' = [response EXCEPT ![t] =
                       [status |-> 200,
                        content |-> [metrics |-> Snapshot(results[t]),
                                     insights |-> results[t].insights]]]
    /\ results' = [results EXCEPT ![t] = None]
    /\ returned' = [returned EXCEPT ![t] = None]
    /\ pc' = [pc EXCEPT ![t] = "idle"]
    /\ attempt' = [attempt EXCEPT ![t] = 0]
    /\ slept' = [slept EXCEPT ![t] = <<>>]
    /\ spreadsheet' = NoSpreadsheet
    /\ collected' = [collected EXCEPT ![t] = None]
    /\ UNCHANGED <<metrics, entry, data, insights, outcome, sheets, later,
                   handed, ai, fnVars>>

(***************************************************************************)
(* Specifications.                                                         *)
(***************************************************************************)
\* the arguments of the direct calls
DirectData == {<<>>, <<RecA, RecB>>, <<RecC>>, <<RecE, RecNoDate>>}

\* Spec: the service as main.py runs it.  search_brand never awaits, so the
\* event loop runs each request to its end before the next one starts; direct
\* calls of process_data come one at a time as well.
Next ==
    \E t \in Callers :
        \/ Quiescent /\ \E R \in DirectData : Call(t, R)
        \/ Quiescent /\ \E generation \in Generations, saveFails \in BOOLEAN,
                           str \in HTTPExceptionStr :
                              Search(t, generation, saveFails, str)
        \/ TotalPosts(t)
        \/ TotalEngagementStep(t)
        \/ PlatformStatsStep(t)
        \/ SentimentStatsStep(t)
        \/ DailyEngagementStep(t)
        \/ \E ins \in GeneratedInsights : InsightsReturn(t, ins)
        \/ InsightsFail(t)
        \/ Normalize(t)
        \/ Return(t)
        \/ \E ins \in GeneratedInsights : AIInsightsReturn(t, ins)
        \/ AIInsightsFail(t)
        \/ UpdateDataSheet(t)
        \/ UpdateMetricsSheet(t)
        \/ SheetsUpdated(t)
        \/ \E effect \in SheetEffects : SheetsFailed(t, effect)
        \/ Respond(t)

Spec == Init /\ [][Next]_vars

\* SpecFn: one process_data call on a new processor, for every input
NewProcessor == Quiescent /\ \A t \in Callers : outcome[t] = "none"

NextFn ==
    \/ NewProcessor /\ \E R \in Inputs : Call(1, R)
    \/ \E t \in Callers :
        \/ TotalPosts(t)
        \/ TotalEngagementStep(t)
        \/ PlatformStatsStep(t)
        \/ SentimentStatsStep(t)
        \/ DailyEngagementStep(t)
        \/ \E ins \in GeneratedInsights : InsightsReturn(t, ins)
        \/ InsightsFail(t)
        \/ Normalize(t)
        \/ Return(t)

SpecFn == Init /\ [][NextFn]_vars

\* SpecThreads: process_data called from two threads that share the processor
NextThreads ==
    \E t \in Callers :
        \/ \E R \in DirectData : Call(t, R)
        \/ TotalPosts(t)
        \/ TotalEngagementStep(t)
        \/ PlatformStatsStep(t)
        \/ SentimentStatsStep(t)
        \/ DailyEngagementStep(t)
        \/ \E ins \in GeneratedInsights : InsightsReturn(t, ins)
        \/ InsightsFail(t)
        \/ Normalize(t)
        \/ Return(t)

SpecThreads == Init /\ [][NextThreads]_vars

\* the snapshot of a call that runs alone on the input R
Aggregate(R) ==
    IF R = <<>> THEN EmptyMetrics
    ELSE [total_posts |-> Len(R),
          total_engagement |-> TotalEngagement(R),
          platform_stats |-> NormalizeStats(PlatformStats(R)),
          sentiment_stats |-> NormalizeSentiments(SentimentStats(R)),
          daily_engagement |-> DailyEngagement(R),
          raw_data |-> R]

\* SpecSheet: update_metrics_sheet called by itself, for every argument
PlatformStatsInputs ==
    {<<>>,
     <<[key |-> "X", val |-> MaxLikes]>>,
     <<[key |-> "X", val |-> 30], [key |-> "Instagram", val |-> 6]>>}

SentimentStatsInputs ==
    {<<>>,
     <<[key |-> "positive", val |-> 1]>>,
     <<[key |-> "positive", val |-> 1], [key |-> "negative", val |-> 2]>>}

RawDataInputs == {<<>>, <<RecA, RecB>>, Run(MaxRun, MaxLikes)}

\* the value under "insights": a list, a str, or None
InsightsInputs ==
    {PyList(<<>>), PyList(<<"insight">>), PyList(<<"insight", "another">>),
     PyStr("insight"), None}

\* the dicts update_metrics_sheet is called with: the flat dict its body
\* reads, the same without some keys, and the dict search_brand passes
SheetInputs ==
    {<< [key |-> "total_posts", val |-> tp],
        [key |-> "total_engagement", val |-> tp * te],
        [key |-> "platform_stats", val |-> ps],
        [key |-> "sentiment_stats", val |-> ss],
        [key |-> "raw_data", val |-> rd],
        [key |-> "insights", val |-> ins] >> :
            tp \in 0..MaxPosts, te \in {0, 7, MaxLikes},
            ps \in PlatformStatsInputs, ss \in SentimentStatsInputs,
            rd \in RawDataInputs, ins \in InsightsInputs}
    \cup {<< [key |-> "total_posts", val |-> tp],
             [key |-> "sentiment_stats", val |-> ss] >> :
            tp \in 0..MaxPosts, ss \in SentimentStatsInputs}
    \cup {<< [key |-> "metrics", val |-> Aggregate(R)],
             [key |-> "insights", val |-> ins] >> :
            R \in DirectData \ {<<RecE, RecNoDate>>}, ins \in InsightsInputs}
    \cup {<<>>}

\* update_metrics_sheet(brand_name, arg) called while no request runs; the
\* spreadsheet calls of lines 270-299 succeed
CallUpdateMetricsSheet(arg) ==
    /\ Quiescent
    /\ LET built == MetricsData(arg)
       IN  /\ sheetCall' = [arg |-> arg, raised |-> Raised(built)]
           /\ spreadsheet' = IF Raised(built) THEN spreadsheet
                             ELSE [spreadsheet EXCEPT !.metrics = built]
    /\ UNCHANGED <<metrics, pc, entry, data, insights, attempt, slept, results,
                   outcome, sheets, response, returned, later, handed,
                   collected, ai, parseCall>>

\* one call on a new service
NextSheet ==
    sheetCall = None /\ \E arg \in SheetInputs : CallUpdateMetricsSheet(arg)

SpecSheet == Init /\ [][NextSheet]_vars

\* SpecParse: _parse_insights called by itself, for every response text
\* the lines of the response texts:
\*   ""                    an empty line
\*   " 1. post daily."     numbered, 11 characters left, ends with a period
\*   "- 10 abcdefghij"     10 characters left
\*   "**Videos work**\r"   bullet characters, no period, a carriage return
LineForms ==
    { <<>>,
      <<32, 49, 46, 32, 112, 111, 115, 116, 32, 100, 97, 105, 108, 121, 46>>,
      <<45, 32, 49, 48, 32, 97, 98, 99, 100, 101, 102, 103, 104, 105, 106>>,
      <<42, 42, 86, 105, 100, 101, 111, 115, 32, 119, 111, 114, 107, 42, 42,
        13>> }

RECURSIVE JoinLines(_)
\* "\n".join(lines)
JoinLines(lines) ==
    IF lines = <<>> THEN <<>>
    ELSE IF Len(lines) = 1 THEN lines[1]
    ELSE lines[1] \o <<10>> \o JoinLines(Tail(lines))

ResponseTexts == {JoinLines(lines) : lines \in SeqsUpTo(LineForms, MaxLines)}

\* _parse_insights(response_text) called while no request runs
CallParseInsights(response_text) ==
    /\ Quiescent
    /\ parseCall' = [text |-> response_text,
                     insights |-> ParseInsights(response_text)]
    /\ UNCHANGED <<metrics, pc, entry, data, insights, attempt, slept, results,
                   outcome, sheets, response, returned, later, spreadsheet,
                   handed, collected, ai, sheetCall>>

\* one call on a new service
NextParse ==
    parseCall = None /\ \E text \in ResponseTexts : CallParseInsights(text)

SpecParse == Init /\ [][NextParse]_vars

(***************************************************************************)
(* Properties.                                                             *)
(***************************************************************************)
\* process_data returned a snapshot to t for the input data[t]; returned[t]
\* is that snapshot as it was when the call returned
HasReturned(t) == returned[t] # None

PostsOf(stats) == [i \in 1..Len(stats) |-> stats[i].val.posts]

CountsOf(stats) == [i \in 1..Len(stats) |-> stats[i].val.count]

ValuesOf(d) == [i \in 1..Len(d) |-> d[i].val]

\* the text before the first space of s (all of s when it holds no space)
BeforeFirstSpace(s) ==
    IF \E i \in 1..Len(s) : s[i] = 32
    THEN LET first == CHOOSE i \in 1..Len(s) :
                          s[i] = 32 /\ \A j \in 1..(i - 1) : s[j] # 32
         IN  SubSeq(s, 1, first - 1)
    ELSE s

DatePortions(R) == {BeforeFirstSpace(R[i].date) : i \in 1..Len(R)}

\* C1 (as claimed): a snapshot that process_data returned still has, after a
\* later call has returned, the value of each field it was returned with.
C1_SnapshotKeepsItsValue ==
    \A t \in Callers :
        (/\ Quiescent
         /\ results[t] # None
         /\ \A u \in Callers : outcome[u] # "raised")
            => Snapshot(results[t]) = returned[t]

\* C2 (as claimed): a search request with a non-empty record sequence is
\* never answered with status 500 because insight generation failed.
C2_InsightFailureNotPropagated ==
    \A t \in Callers :
        (entry[t] = "search" /\ data[t] # <<>> /\ response[t] # None)
            => (response[t].status = 500 => response[t].detail # "RetryError")

\* C3: in the snapshot returned for R the posts of the platforms add up to
\* total_posts, which is len(R), and so do the counts of the sentiments.
C3_CountsAddUp ==
    \A t \in Callers :
        HasReturned(t) =>
            /\ returned[t].total_posts = Len(data[t])
            /\ SumSeq(PostsOf(returned[t].platform_stats))
                  = returned[t].total_posts
            /\ SumSeq(CountsOf(returned[t].sentiment_stats))
                  = returned[t].total_posts

C3_Witness ==
    \E t \in Callers :
        /\ HasReturned(t)
        /\ Len(data[t]) = 3
        /\ Len(returned[t].platform_stats) = 2
        /\ Len(returned[t].sentiment_stats) = 2

\* C4: in the snapshot returned for R the daily_engagement values add up to
\* total_engagement, which is the sum of likes + comments + shares over R.
C4_EngagementAddsUp ==
    \A t \in Callers :
        HasReturned(t) =>
            /\ SumSeq(ValuesOf(returned[t].daily_engagement))
                  = returned[t].total_engagement
            /\ returned[t].total_engagement
                  = SumSeq([i \in 1..Len(data[t]) |->
                              data[t][i].engagement.likes
                                  + data[t][i].engagement.comments
                                  + data[t][i].engagement.shares])

C4_Witness ==
    \E t \in Callers :
        /\ HasReturned(t)
        /\ Len(returned[t].daily_engagement) = 2
        /\ Len(data[t]) = 3
        /\ \A i \in 1..3 : EngagementOf(data[t][i]) > 0

\* C5: the daily_engagement of the snapshot returned for R has exactly the
\* date portions of R as keys, each once, in ascending string order, in
\* whatever order the records came.
C5_DailyKeysSorted ==
    \A t \in Callers :
        HasReturned(t) =>
            LET daily == returned[t].daily_engagement
            IN  /\ Keys(daily) = DatePortions(data[t])
                /\ \A i, j \in 1..Len(daily) :
                      i < j => StrLess(daily[i].key, daily[j].key)

\* records of two dates, the later date first, and a date that comes twice
C5_Witness ==
    \E t \in Callers :
        /\ HasReturned(t)
        /\ Len(data[t]) = 3
        /\ Len(returned[t].daily_engagement) = 2
        /\ StrLess(BeforeFirstSpace(data[t][2].date),
                   BeforeFirstSpace(data[t][1].date))

\* C6: a call of process_data with the empty sequence never gets past the
\* return of line 26 (so it neither raises nor reaches generate_insights), and
\* the snapshot it returns has zero totals and empty mappings, whatever
\* calls came before it.
C6_EmptyInput ==
    \A t \in Callers :
        (entry[t] = "direct" /\ data[t] = <<>>) =>
            /\ pc[t] = "idle"
            /\ outcome[t] \in {"none", "returned"}
            /\ outcome[t] = "returned" =>
                  /\ results[t] # None
                  /\ Snapshot(results[t]).total_posts = 0
                  /\ Snapshot(results[t]).total_engagement = 0
                  /\ Snapshot(results[t]).platform_stats = <<>>
                  /\ Snapshot(results[t]).sentiment_stats = <<>>
                  /\ Snapshot(results[t]).daily_engagement = <<>>
                  /\ Snapshot(results[t]).raw_data = <<>>

\* the empty call came after a call that filled self.metrics
C6_Witness ==
    \E t \in Callers :
        /\ entry[t] = "direct"
        /\ data[t] = <<>>
        /\ outcome[t] = "returned"
        /\ metrics.total_posts > 0
        /\ metrics.daily_engagement # <<>>

\* one entry per platform string of R, with its number of records and the sum
\* of their likes + comments + shares
PlatformCounts(t) ==
    LET stats == returned[t].platform_stats
        R     == data[t]
        rows(p) == {i \in 1..Len(R) : R[i].platform = p}
    IN  /\ Keys(stats) = {R[i].platform : i \in 1..Len(R)}
        /\ Len(stats) = Cardinality(Keys(stats))
        /\ \A k \in 1..Len(stats) :
              /\ stats[k].val.posts = Cardinality(rows(stats[k].key))
              /\ stats[k].val.total_engagement
                    = SumSeq([i \in 1..Len(R) |->
                                IF R[i].platform = stats[k].key
                                THEN R[i].engagement.likes
                                         + R[i].engagement.comments
                                         + R[i].engagement.shares
                                ELSE 0])

\* x <= y for binary digit sequences without leading zeros
BitsLeq(x, y) ==
    \/ Len(x) < Len(y)
    \/ /\ Len(x) = Len(y)
       /\ \/ x = y
          \/ \E i \in 1..Len(x) :
                x[i] < y[i] /\ \A j \in 1..(i - 1) : x[j] = y[j]

\* f is a double nearest to a / b (b > 0):  |f - a/b| <= ulp(f) / 2, that is
\* |2 * m * b - 2 * |a| * 2^(-e)| <= b for f = m * 2^e
NearestDouble(f, a, b) ==
    IF a = 0 THEN f = Zero
    ELSE /\ f.m # <<>>
         /\ f.neg = (a < 0)
         /\ f.e <= 0
         /\ LET x == BitsMul(f.m, 2 * b)
                y == NatBits(2 * Abs(a)) \o Zeros(-f.e)
            IN  /\ BitsLeq(x, StripZeros(BitsMulCarry(y, 1, b)))
                /\ BitsLeq(y, StripZeros(BitsMulCarry(x, 1, b)))

\* C7 (as claimed): platform_stats has one entry per platform string of R,
\* with its posts and total_engagement, and avg_engagement * posts =
\* total_engagement.
C7_AvgTimesPosts ==
    \A t \in Callers :
        HasReturned(t) =>
            /\ PlatformCounts(t)
            /\ \A k \in 1..Len(returned[t].platform_stats) :
                  LET v == returned[t].platform_stats[k].val
                  IN  PyFloatMulInt(v.avg_engagement, v.posts)
                          = IntToFloat(v.total_engagement)

\* C7 (amended): platform_stats has one entry per platform string of R, with
\* its posts and total_engagement, and avg_engagement is the double nearest
\* to total_engagement / posts.
C7_AvgIsRoundedQuotient ==
    \A t \in Callers :
        HasReturned(t) =>
            /\ PlatformCounts(t)
            /\ \A k \in 1..Len(returned[t].platform_stats) :
                  LET v == returned[t].platform_stats[k].val
                  IN  NearestDouble(v.avg_engagement, v.total_engagement,
                                    v.posts)

\* a platform whose quotient 29 / 7 is not a double
C7_Witness ==
    \E t \in Callers :
        /\ HasReturned(t)
        /\ \E k \in 1..Len(returned[t].platform_stats) :
              LET v == returned[t].platform_stats[k].val
              IN  v.posts = 7 /\ v.total_engagement = 29

\* C8 (as claimed): every field of the snapshot a call returns is computed
\* from the input of that call alone.
C8_OwnInputOnly ==
    \A t \in Callers : HasReturned(t) => returned[t] = Aggregate(data[t])

\* C9: two calls with the same record sequence return snapshots that agree in
\* every field, whatever calls were made before and between them.
C9_SameInputSameSnapshot ==
    \A t, u \in Callers :
        (HasReturned(t) /\ HasReturned(u) /\ data[t] = data[u])
            => returned[t] = returned[u]

\* caller 2 has begun two calls since caller 1 called: one with another
\* input, then one with the input of caller 1
C9_Witness ==
    /\ HasReturned(1)
    /\ HasReturned(2)
    /\ data[1] = data[2]
    /\ data[1] # <<>>
    /\ later[1] = 2
    /\ Quiescent

\* C10 (as claimed): process_data returns a snapshot only when every record
\* keeps the record contract (non-negative counts, a well-formed date).
C10_MalformedRejected ==
    \A t \in Callers :
        HasReturned(t) => \A i \in 1..Len(data[t]) : ValidRecord(data[t][i])

\* the statements of search_brand after its generate_insights call
AfterAIInsights == {"sheets", "metrics_sheet", "dashboard", "respond"}

\* t is inside a generate_insights call (line 96 of processor.py or line 91
\* of main.py), about to make attempt number attempt[t] + 1
InGenerateInsights(t) == pc[t] \in {"insights", "ai_insights"}

\* the generate_insights call of t has given up after its last attempt
GaveUp(t) ==
    \/ pc[t] = "idle" /\ outcome[t] = "raised" /\ attempt[t] > 0
    \/ pc[t] \in AfterAIInsights /\ results[t].insights = UnableInsights

\* the calls of the generative model made so far by the generate_insights
\* call that t is in or has just left: one per attempt
ModelCalls(t) ==
    IF InGenerateInsights(t) \/ GaveUp(t) THEN attempt[t] ELSE attempt[t] + 1

\* C11: one generate_insights call makes at most 3 attempts; every attempt
\* but the first follows a failed one and a wait of 4 to 10 time units; the
\* call gives up exactly when the third attempt has failed.
C11_BoundedRetry ==
    \A t \in Callers :
        /\ ModelCalls(t) <= MaxAttempts
        /\ InGenerateInsights(t) => attempt[t] < MaxAttempts
        /\ Len(slept[t]) = Min(attempt[t], MaxAttempts - 1)
        /\ \A i \in 1..Len(slept[t]) : slept[t][i] \in 4..10
        /\ GaveUp(t) <=> attempt[t] = MaxAttempts
        /\ pc[t] = "normalize" => attempt[t] < MaxAttempts

\* a call that succeeded at its third attempt, after two waits
C11_Witness ==
    \E t \in Callers :
        /\ pc[t] = "normalize"
        /\ insights[t] # <<>>
        /\ attempt[t] = 2
        /\ Len(slept[t]) = 2

\* the insights search_brand puts into results for the outcome a of its
\* generate_insights call
RequestInsights(a) ==
    IF "raised" \in DOMAIN a THEN UnableInsights
    ELSE IF a.returned = <<>> THEN NoAIInsights
    ELSE a.returned

\* request t has ended (with a response or an error response)
Ended(t) == entry[t] = "search" /\ pc[t] = "idle" /\ response[t] # None

\* C12: a request whose spreadsheet update failed is answered with status
\* 200 and with the snapshot of its records and the insights of its
\* generate_insights call, the content it has when the update succeeds.
C12_SheetsFailureStillAnswers ==
    \A t \in Callers :
        (entry[t] = "search" /\ pc[t] = "idle" /\ sheets[t] = "failed") =>
            /\ response[t] # None
            /\ response[t].status = 200
            /\ response[t].content =
                  [metrics |-> Aggregate(data[t]),
                   insights |-> RequestInsights(ai[t])]

\* a request answered after one of its spreadsheet calls raised
C12_Witness ==
    \E t \in Callers :
        /\ Ended(t)
        /\ sheets[t] = "failed"
        /\ response[t].status = 200

\* C13 (as claimed): a request for which collect_data returned no records
\* is answered with status 404 and the detail of line 84.
C13_NoDataIs404 ==
    \A t \in Callers :
        (Ended(t) /\ data[t] = <<>>) =>
            /\ response[t].status = 404
            /\ response[t].detail = "No data found for the specified brand"

\* the rows of a worksheet with n cells
RowsOfWidth(ws, n) == {i \in 1..Len(ws.rows) : Len(ws.rows[i]) = n}

\* C14 (as claimed): when update_metrics_sheet has returned for a request,
\* the Total Posts and Total Engagement rows of the Metrics worksheet hold
\* the totals of the request's snapshot, and the worksheet has a platform
\* row per platform_stats entry and a sentiment row per sentiment_stats
\* entry (next to the header row of each table).
C14_SheetMirrorsSnapshot ==
    \A t \in Callers :
        pc[t] = "dashboard" =>
            LET ws   == spreadsheet.metrics
                snap == Snapshot(results[t])
            IN  /\ ws.rows[2] = <<"Total Posts", snap.total_posts>>
                /\ ws.rows[3] = <<"Total Engagement", snap.total_engagement>>
                /\ Cardinality(RowsOfWidth(ws, 4)) =
                       1 + Len(snap.platform_stats)
                /\ Cardinality(RowsOfWidth(ws, 3)) =
                       1 + Len(snap.sentiment_stats)

\* the argument of the last direct call of update_metrics_sheet asks for an
\* empty sheet: no posts, no platforms, no sentiments
EmptySheetInput ==
    /\ DictGet(sheetCall.arg, "total_posts", 0) = 0
    /\ DictGet(sheetCall.arg, "platform_stats", <<>>) = <<>>
    /\ DictGet(sheetCall.arg, "sentiment_stats", <<>>) = <<>>

\* that argument holds no insight: no list, or an empty one
NoInsightsInput ==
    LET given == DictGet(sheetCall.arg, "insights", PyList(<<>>))
    IN  IsList(given) => given.list = <<>>

\* C15: update_metrics_sheet never raises a division error; for an argument
\* with no posts, platforms or sentiments the rate cell is "0" and the two
\* tables hold their header rows only; for an argument without insights
\* the only row under "AI-Generated Insights" is "No insights available".
C15_ZeroGuardAndPlaceholder ==
    sheetCall # None =>
        LET rows == spreadsheet.metrics.rows
            n    == Len(rows)
        IN  /\ ~sheetCall.raised
            /\ EmptySheetInput =>
                  /\ rows[4] = <<"Average Engagement Rate", "0">>
                  /\ Cardinality(RowsOfWidth(spreadsheet.metrics, 4)) = 1
                  /\ Cardinality(RowsOfWidth(spreadsheet.metrics, 3)) = 1
            /\ NoInsightsInput =>
                  /\ rows[n] = <<"No insights available", "">>
                  /\ rows[n - 1] = <<"AI-Generated Insights", "">>

\* a call with no posts, platforms or sentiments whose insights are a str
C15_Witness ==
    /\ sheetCall # None
    /\ EmptySheetInput
    /\ ~IsList(DictGet(sheetCall.arg, "insights", PyList(<<>>)))
    /\ spreadsheet.metrics # None
    /\ Len(spreadsheet.metrics.rows) = 13

\* a step in which process_data assigns a field of self.metrics: lines 39,
\* 45, 52, 68, 78, 93 and the conversions of lines 99-109
WritesMetrics ==
    \E t \in Callers :
        \/ pc[t] = "idle" /\ pc'[t] = "total_posts"
        \/ pc[t] = "total_posts" /\ pc'[t] = "total_engagement"
        \/ pc[t] = "total_engagement" /\ pc'[t] = "platform_stats"
        \/ pc[t] = "platform_stats" /\ pc'[t] = "sentiment_stats"
        \/ pc[t] = "sentiment_stats" /\ pc'[t] = "daily_engagement"
        \/ pc[t] = "daily_engagement" /\ pc'[t] = "insights"
        \/ pc[t] = "normalize" /\ pc'[t] = "return"

\* C16 (as claimed): once generate_insights has been invoked with the
\* snapshot, no step assigns a field of that snapshot again.
C16_SnapshotFinalWhenHandedOver == [][handed => ~WritesMetrics]_vars

\* the line without its leading digits, '.', '*', '-' and spaces
WithoutNumbering(line) ==
    IF \E i \in 1..Len(line) : line[i] \notin NumberingChars
    THEN SubSeq(line,
                CHOOSE i \in 1..Len(line) :
                    line[i] \notin NumberingChars
                        /\ \A j \in 1..(i - 1) : line[j] \in NumberingChars,
                Len(line))
    ELSE <<>>

\* the same, without the whitespace that ends the line
Core(line) ==
    LET w == WithoutNumbering(line)
    IN  IF \E i \in 1..Len(w) : ~IsSpace(w[i])
        THEN SubSeq(w, 1, CHOOSE i \in 1..Len(w) :
                              ~IsSpace(w[i])
                                  /\ \A j \in (i + 1)..Len(w) : IsSpace(w[j]))
        ELSE <<>>

\* insight is the bullet, then the text of the line with its first letter in
\* upper case, then a period if the text does not end with one
BuiltFrom(insight, line) ==
    LET c    == Core(line)
        body == SubSeq(insight, 3, Len(insight))
    IN  /\ Len(WithoutNumbering(line)) > 10
        /\ c # <<>>
        /\ SubSeq(insight, 1, 2) = <<8226, 32>>
        /\ body[Len(body)] = 46
        /\ \/ body = <<Upper(c[1])>> \o Tail(c)
           \/ body = <<Upper(c[1])>> \o Tail(c) \o <<46>>

RECURSIVE InLineOrder(_, _)
\* the insights are built from lines of the text, in the order of the lines
InLineOrder(parsed, lines) ==
    IF parsed = <<>> THEN TRUE
    ELSE IF lines = <<>> THEN FALSE
    ELSE IF BuiltFrom(Head(parsed), Head(lines))
         THEN InLineOrder(Tail(parsed), Tail(lines))
    ELSE InLineOrder(parsed, Tail(lines))

\* C17: _parse_insights returns at most 5 insights; they are built, in the
\* order of the lines, from lines that keep more than 10 characters when
\* their leading digits, '.', '*', '-' and spaces are removed; each starts
\* with the bullet and ends with a period.
C17_ParsedInsights ==
    parseCall # None =>
        /\ Len(parseCall.insights) <= 5
        /\ InLineOrder(parseCall.insights, SplitLines(parseCall.text))

\* a response text with six lines that give an insight
C17_Witness ==
    /\ parseCall # None
    /\ Len(parseCall.insights) = 5
    /\ Len(SplitLines(parseCall.text)) = 6
    /\ \A i \in 1..6 : Len(WithoutNumbering(SplitLines(parseCall.text)[i])) > 10

\* C18: collect_data always returns a list: the generated records when the
\* generation succeeded, whether or not they could be saved, and the empty
\* list when the generation raised.
C18_CollectDataNeverRaises ==
    \A t \in Callers :
        collected[t] # None =>
            /\ data[t] = collected[t].data
            /\ IF Raised(collected[t].generated)
               THEN collected[t].data = <<>>
               ELSE collected[t].data = collected[t].generated.data

\* one request got the empty list of a failed generation, another one goes
\* on with records that could not be saved
C18_Witness ==
    \E t, u \in Callers :
        /\ collected[t] # None /\ collected[u] # None
        /\ Raised(collected[t].generated)
        /\ response[t] # None
        /\ ~Raised(collected[u].generated)
        /\ collected[u].file = None
        /\ pc[u] = "ai_insights"
        /\ metrics.raw_data = collected[u].generated.data
        /\ metrics.total_posts = Len(collected[u].generated.data)

\* C19: the insights of every response of status 200 are a non-empty list:
\* the list the request's generate_insights call returned, the notice of
\* line 95 when that list was empty, the notice of line 98 when the call
\* raised.
C19_ResponseInsightsNeverEmpty ==
    \A t \in Callers :
        (Ended(t) /\ response[t].status = 200) =>
            /\ ai[t] # None
            /\ response[t].content.insights # <<>>
            /\ response[t].content.insights =
                  IF Raised(ai[t])
                  THEN <<"Unable to generate AI insights at this time.">>
                  ELSE IF ai[t].returned = <<>>
                  THEN <<"No AI insights available at this time.">>
                  ELSE ai[t].returned

\* two answered requests: the call of one returned the empty list, the call
\* of the other raised
C19_Witness ==
    \E t, u \in Callers :
        /\ Ended(t) /\ response[t].status = 200
        /\ Ended(u) /\ response[u].status = 200
        /\ ai[t] = [returned |-> <<>>]
        /\ Raised(ai[u])
====
